---- MODULE Spec2Model ----
(***************************************************************************)
(* The bioreactor of src/bioreactor.py as a state machine.                 *)
(*                                                                         *)
(* Numbers.  The program computes on floating-point quantities; the model  *)
(* computes on integers in fixed units, rounding every division down:      *)
(*   time                minutes                                           *)
(*   volume              L            flows of liquid   L/min              *)
(*   flows of gas        dL/min                                            *)
(*   moles               1e-7 mol     feeds, transfers  1e-7 mol/min       *)
(*   concentration       1e-7 mol/L                                        *)
(*   temperature         0.01 degC    heat              0.1 W              *)
(*   fractions           1e-5 (gas phase), 1e-3 (all others)               *)
(*   kLa                 1/min        shear             0.01/s             *)
(* A division by zero is no exception on these quantities (they are numpy  *)
(* arrays): it yields inf or nan, which every later operation keeps        *)
(* non-finite.  The model folds inf and nan into the one value NaN.        *)
(***************************************************************************)
EXTENDS Integers, Sequences, FiniteSets, TLC

\* ------------------------------------------------------------ arithmetic

NaN == 0 - 2000000000

IsNaN(x) == x = NaN

Finite(x) == x # NaN

FAdd(a, b) == IF IsNaN(a) \/ IsNaN(b) THEN NaN ELSE a + b

FSub(a, b) == IF IsNaN(a) \/ IsNaN(b) THEN NaN ELSE a - b

FMul(a, b) == IF IsNaN(a) \/ IsNaN(b) THEN NaN ELSE a * b

\* x / 0 is inf or nan: non-finite either way.
FDiv(a, b) == IF IsNaN(a) \/ IsNaN(b) \/ b = 0 THEN NaN ELSE a \div b

\* F(v), with v evaluated once
Bind(v, F(_)) == CHOOSE y \in {F(x) : x \in {v}} : TRUE

Abs(x) == IF x < 0 THEN 0 - x ELSE x

\* Newton's iteration down from a guess r >= sqrt(x), r > 0
RECURSIVE SqrtFrom(_, _)
SqrtFrom(x, r) ==
  IF r * r <= x THEN r
  ELSE SqrtFrom(x, (r + x \div r) \div 2)

\* floor(sqrt(x)) for 0 <= x < 2^31
Isqrt(x) ==
  SqrtFrom(x, IF x < 100 THEN 10
              ELSE IF x < 10000 THEN 100
              ELSE IF x < 1000000 THEN 1000
              ELSE IF x < 100000000 THEN 10000
              ELSE 46340)

\* x^0.25 on thousandths: sqrt(sqrt(x))
Pow025(x) == Isqrt(Isqrt(x * 1000) * 1000)

\* x^0.39, computed as x^(3/8) = sqrt(sqrt(x) * sqrt(sqrt(x)))
Pow039(x) == Bind(Isqrt(x), LAMBDA r : Isqrt(r * Isqrt(r)))

\* x^0.79, computed as x^(3/4) = sqrt(x * sqrt(x))
Pow079(x) == Isqrt(x * Isqrt(x))

\* tanh on thousandths, by x / (1 + |x|): odd, increasing, inside (-1, 1)
Tanh(x) == (x * 1000) \div (1000 + Abs(x))

\* math.exp(-x) in thousandths for x >= 0, by 1 / (1 + x): exp(0) = 1,
\* decreasing, inside [0, 1]
ExpNeg(x) == 1000 \div (1 + x)

RECURSIVE Log10Floor(_)
Log10Floor(x) == IF x < 10 THEN 0 ELSE 1 + Log10Floor(x \div 10)

\* ------------------------------------------------- param (configuration)
\* The module param is not among the sources: its names are the ones
\* bioreactor.py reads, its values are representative ones.

\* param.resolution, param.q_res: the step, in minutes
resolution == 2

q_res == resolution

liquid_components == <<"dO2", "dCO2", "Na", "lactate">>

gas_components == <<"O2", "CO2", "air">>

positively_charged == {"Na"}

negatively_charged == {"lactate"}

\* param.kla_ratio, in hundredths
kla_ratio == [dO2 |-> 100, dCO2 |-> 90]

\* param.viscosity, in mPa*s
viscosity == 1

\* param.environment_temperature, in 0.01 degC
environment_temperature == 2500

\* param.volumetric_heat_capacity, in J/(L*K)
volumetric_heat_capacity == 4184

\* param.actual_cc_density, in kg/m^3
actual_cc_density == 1000

\* param.gravity, in 0.01 m/s^2
gravity == 981

Range(seq) == {seq[i] : i \in DOMAIN seq}

\* the species with a gas-phase counterpart: component[1:] in gas_components
GasExchanged == {c \in Range(liquid_components) :
                   \E g \in Range(gas_components) : c = "d" \o g}

\* ------------------------------------------------------------ solubility

\* mM/atm in thousandths: 1.58 - 0.015 t and 48.39 - 0.61 t, t in 0.01 degC
solubility(component, t) ==
  IF IsNaN(t) THEN NaN
  ELSE IF component = "dO2" THEN 1580 - (15 * t) \div 100
  ELSE 48390 - (610 * t) \div 100

\* -------------------------------------------------------------- agitator

ImpellerTypes == {"rushton", "marine", "pitched"}

\* agitator.__init__ from the lookup on: the object with its power_number
\* (in tenths) and power_number * 1000 kg/m^3 * diameter^5, in uW*s^3
Completed(self, power_number) ==
  [raised |-> "none",
   self |-> [type |-> self.type, number |-> self.number,
             diameter |-> self.diameter, width |-> self.width,
             power_number |-> power_number,
             ungassed_power_coeff |->
               (power_number * 1000 * self.diameter ^ 5) \div 100000]]

\* mutant: an unrecognized impeller is taken for the default one
agitator_init_Default(impeller_type) ==
  LET self == [type |-> impeller_type, number |-> 1, diameter |-> 6, width |-> 2]
  IN  IF impeller_type = "marine" THEN Completed(self, 22)
      ELSE Completed(self, 55)

\* agitator.__init__: the object built, or the ValueError raised (the
\* object is then dropped with the fields set so far)
agitator_init(impeller_type) ==
  LET self == [type |-> impeller_type, number |-> 1, diameter |-> 6, width |-> 2]
  IN  IF impeller_type = "rushton" THEN Completed(self, 55)
      ELSE IF impeller_type = "marine" THEN Completed(self, 22)
      ELSE [raised |-> "ValueError", self |-> self]

\* agitator.ungassed_power, in uW
ungassed_power(agitator, RPS) == RPS ^ 3 * agitator.ungassed_power_coeff

\* --------------------------------------------------------------- geometry
\* bioreactor.__init__'s defaults

\* volume = Q(3, 'L')
volume == 3

\* diameter = Q(13, 'cm')
diameter == 13

\* sparger_height = Q(2, 'cm')
sparger_height == 2

\* head_pressure = Q(760, 'mmHg')
head_pressure == 760

\* heat_transfer_coeff = Q(50, 'W/m**2')
heat_transfer_coeff == 50

\* self.CSA = diameter**2/4*math.pi, in cm^2
CSA == (diameter ^ 2 * 355) \div (4 * 113)

\* self.pressure, in thousandths of an atmosphere:
\* sparger_height/2 * density * gravity + head_pressure
pressure ==
  LET hydrostatic == (sparger_height * actual_cc_density * gravity) \div (2 * 10000)
      head == (head_pressure * 101325) \div 760
  IN  ((hydrostatic + head) * 1000) \div 101325

\* self.overall_heat_transfer_coeff, in 0.1 W/K:
\* heat_transfer_coeff * (2*CSA + volume/CSA*pi*diameter)
overall_heat_transfer_coeff ==
  LET side == (volume * 1000 * 355 * diameter) \div (CSA * 113)
  IN  (heat_transfer_coeff * (2 * CSA + side)) \div 1000

\* ------------------------------------------------------------------- kLa
\* create_kla_function's constants for the default geometry (diameter
\* ratio 6/13), in thousandths

\* A = 5.3 * math.exp(-5.4*diam_ratio)
A == 438

\* B = 0.47 * diam_ratio**1.3
B == 172

\* C = 0.64 - 1.1 * diam_ratio
C == 132

\* froude_coeff = agitator.diameter / 9.81 m/s^2, in 1e-6 s^2
froude_coeff(agitator) == (agitator.diameter * 1000000) \div gravity

\* kla_func, in 1/min
kla_func(agitator, RPS, gas_flow, working_volume) ==
  LET froude == (froude_coeff(agitator) * RPS ^ 2) \div 1000
      aeration == (gas_flow * 100000) \div (60 * RPS * agitator.diameter ^ 3)
      ungassed == ungassed_power(agitator, RPS)
      lower_gassed_power ==
        (ungassed *
           (1000 - ((((B - (A * viscosity) \div 1000) * Pow025(froude)) \div 1000)
                      * Tanh((C * aeration) \div 1000)) \div 1000)) \div 1000
      \* aeration**(C+0.04*froude), the exponent taken as 1/8
      upper_gassed_power ==
        ((agitator.number - 1) * ungassed *
           (1000 - ((A + (B * froude) \div 1000)
                      * Isqrt(Pow025(aeration) * 1000)) \div 1000)) \div 1000
      \* gas_flow / CSA, in um/s
      superficial_velocity == (gas_flow * 1000000) \div (60 * CSA)
      \* (lower + upper) / working_volume, in mW/m^3
      power_per_volume == (lower_gassed_power + upper_gassed_power) \div working_volume
  IN  (1080 * Pow039(power_per_volume) * Pow079(superficial_velocity)) \div 421697

\* ------------------------------------------------------------ bioreactor

\* an attribute not assigned yet (kla, gas_percentages, the shears before
\* the first step)
Unset == 0 - 1999999999

\* self.old = {}: the empty dict equals no actuation
EmptyDict == [ref |-> "empty", val |-> [RPS |-> Unset]]

\* The dict a reference denotes now.  A reference to the caller's own dict
\* ("shared") denotes whatever that dict holds at this moment; a dict nobody
\* writes to after the call ("fresh") keeps the value it was passed with.
Deref(reference, heap) == IF reference.ref = "shared" THEN heap ELSE reference.val

\* bioreactor.__init__
bioreactor_init(start_time, initial_components, seed_volume, initial_temperature) ==
  [working_volume |-> seed_volume,
   current_time |-> start_time,
   old |-> EmptyDict,
   mole |-> [component \in Range(liquid_components) |->
               IF component \in DOMAIN initial_components
               THEN initial_components[component] ELSE 0],
   temperature |-> initial_temperature,
   kla |-> Unset,
   gas_percentages |-> [dO2 |-> Unset, dCO2 |-> Unset, dair |-> Unset],
   mean_shear |-> Unset,
   max_shear |-> Unset]

\* update_shear: (mean_shear, max_shear) in 0.01/s.  ratio is
\* (agitator.diameter / self.diameter)**0.3 for the default geometry, in
\* thousandths.
shear_ratio == 793

update_shear(self, agitator, RPS) ==
  LET mean_shear == (42 * RPS * shear_ratio * agitator.diameter) \div (agitator.width * 100)
  IN  [self EXCEPT !.mean_shear = mean_shear,
                   !.max_shear = (mean_shear * 97) \div 42]

\* calc_gas_percentages, in 1e-5
calc_gas_percentages(actuation) ==
  LET total == actuation["O2"] + actuation["CO2"] + actuation["air"]
      percent == [g \in Range(gas_components) |-> FDiv(actuation[g] * 100000, total)]
  IN  [dO2 |-> FAdd(percent["O2"], FDiv(FMul(percent["air"], 21), 100)),
       dCO2 |-> FAdd(percent["CO2"], FDiv(FMul(percent["air"], 45), 100000)),
       dair |-> percent["air"]]

\* mutant: recompute only if the command differs AND liquid is fed
MustUpdate_Both(self, actuation, heap) ==
  actuation.val # Deref(self.old, heap) /\ actuation.val["liquid_volume"] # 0

\* the test of check_and_update's if
MustUpdate(self, actuation, heap) ==
  ~ (actuation.val = Deref(self.old, heap) /\ actuation.val["liquid_volume"] = 0)

\* the assignments under check_and_update's if
Update(self, agitator, actuation) ==
  update_shear(
    [self EXCEPT
       !.old = actuation,
       !.kla = kla_func(agitator, actuation.val["RPS"],
                        actuation.val["gas_volume"], self.working_volume),
       !.gas_percentages = calc_gas_percentages(actuation.val)],
    agitator, actuation.val["RPS"])

\* mutant: the clock is advanced under the if, with the cache
check_and_update_TimeWithCache(self, agitator, actuation, heap) ==
  IF MustUpdate(self, actuation, heap)
  THEN Update([self EXCEPT !.current_time = self.current_time + resolution],
              agitator, actuation)
  ELSE self

\* check_and_update
check_and_update(self, agitator, actuation, heap) ==
  LET timed == [self EXCEPT !.current_time = self.current_time + resolution]
  IN  IF MustUpdate(self, actuation, heap)
      THEN Update(timed, agitator, actuation)
      ELSE timed

RECURSIVE SumOver(_, _)
SumOver(f, S) ==
  IF S = {} THEN 0
  ELSE LET x == CHOOSE y \in S : TRUE IN FAdd(f[x], SumOver(f, S \ {x}))

\* total_moles
total_moles(self) == SumOver(self.mole, DOMAIN self.mole)

\* self.mole[species]/self.working_volume, in 1e-7 M
Concentration(self, species) == FDiv(self.mole[species], self.working_volume)

\* pH's net_charge, in 1e-7 M
net_charge(self) ==
  LET conc == [species \in DOMAIN self.mole |-> Concentration(self, species)]
  IN  FSub(SumOver(conc, DOMAIN self.mole \cap positively_charged),
           SumOver(conc, DOMAIN self.mole \cap negatively_charged))

\* the argument of pH's math.sqrt, in (1e-9 M)^2:
\* (net_charge/2)**2 + 10**-14 + 10**-6.36*1.0017*[dCO2]
Discriminant(self) ==
  LET half == FMul(50, net_charge(self))
  IN  FAdd(FAdd(FMul(half, half), 10000),
           FMul(43726, Concentration(self, "dCO2")))

\* pH: the value returned, or the ValueError of math.sqrt (negative
\* argument) or of math.log10 (argument not positive).  nan goes through
\* both unraised.
pH(self) ==
  LET d == Discriminant(self)
      h == Isqrt(d) - 50 * net_charge(self)
  IN  IF IsNaN(d) THEN [raised |-> "none", value |-> NaN]
      ELSE IF d < 0 THEN [raised |-> "ValueError", value |-> NaN]
      ELSE IF h <= 0 THEN [raised |-> "ValueError", value |-> NaN]
      ELSE [raised |-> "none", value |-> 9 - Log10Floor(h)]

\* step's cell_fraction, in thousandths
CellFraction(self, cells) == (cells.total_cells * cells.volume) \div self.working_volume

\* step's C_star for a gas-exchanged component: cached fraction * pressure *
\* solubility at the reactor's temperature
C_star(self, component) ==
  FDiv(FMul(FDiv(FMul(self.gas_percentages[component], pressure), 1000),
            solubility(component, self.temperature)), 10000)

\* step's kLa for a gas-exchanged component: cached kla * param.kla_ratio
kLa(self, component) == (self.kla * kla_ratio[component]) \div 100

\* the relaxation of a gas-exchanged component: its new moles
ExchangedMole(self, cells, component) ==
  LET transfer_coeff == ExpNeg(kLa(self, component) * q_res)
  IN  FDiv(FAdd(FMul(transfer_coeff, self.mole[component]),
                FMul(1000 - transfer_coeff,
                     FSub(FMul(C_star(self, component), self.working_volume),
                          FDiv(cells.mass_transfer[component], kLa(self, component))))),
           1000)

\* mutant: the feed alone, the cells' mass transfer left out
ExplicitMole_FeedOnly(self, actuation, cells, component) ==
  self.mole[component] + actuation[component] * q_res

\* the explicit update of any other component: its new moles
ExplicitMole(self, actuation, cells, component) ==
  self.mole[component]
    + (actuation[component] + cells.mass_transfer[component]) * q_res

\* the body of step's loop for one component
NewMole(self, actuation, cells, component) ==
  IF component \in GasExchanged
  THEN ExchangedMole(self, cells, component)
  ELSE ExplicitMole(self, actuation, cells, component)

\* step's temperature update
NewTemperature(self, actuation) ==
  LET heat_transfer == actuation["heat"]
        + ((environment_temperature - self.temperature) * overall_heat_transfer_coeff) \div 100
  IN  FAdd(self.temperature,
           FDiv(heat_transfer * q_res * 600, self.working_volume * volumetric_heat_capacity))

\* what a call that did not return leaves with the caller
Nothing == [returned |-> FALSE]

\* step's return value and exit: the snapshot, or the exception raised out
\* of pH (after every assignment)
Output(after, cell_fraction) ==
  LET osmo == FDiv(FMul(total_moles(after), 1000),
                   after.working_volume * (1000 - cell_fraction))
      acidity == pH(after)
      environment ==
        [shear |-> after.mean_shear,
         max_shear |-> after.max_shear,
         volume |-> after.working_volume,
         mOsm |-> osmo,
         pH |-> acidity.value,
         temperature |-> after.temperature,
         time |-> after.current_time]
        @@ [component \in DOMAIN after.mole |-> Concentration(after, component)]
  IN  [self |-> after,
       printed |-> IF cell_fraction > 1000 THEN <<"Wayyyyy too many cells">> ELSE << >>,
       raised |-> acidity.raised,
       environment |-> IF acidity.raised = "none" THEN environment ELSE Nothing]

\* mutant: an overloaded culture ends the call
Balance_Abort(checked, actuation, cells) ==
  IF CellFraction(checked, cells) > 1000
  THEN [self |-> checked, printed |-> <<"Wayyyyy too many cells">>,
        raised |-> "ValueError", environment |-> Nothing]
  ELSE Bind([checked EXCEPT
               !.mole = [component \in DOMAIN checked.mole |->
                           NewMole(checked, actuation, cells, component)],
               !.working_volume = checked.working_volume
                                    + actuation["liquid_volume"] * q_res],
            LAMBDA moved :
              Bind([moved EXCEPT !.temperature = NewTemperature(moved, actuation)],
                   LAMBDA after : Output(after, CellFraction(checked, cells))))

\* step's assignments after check_and_update
Balance(checked, actuation, cells) ==
  Bind([checked EXCEPT
          !.mole = [component \in DOMAIN checked.mole |->
                      NewMole(checked, actuation, cells, component)],
          !.working_volume = checked.working_volume
                               + actuation["liquid_volume"] * q_res],
       LAMBDA moved :
         Bind([moved EXCEPT !.temperature = NewTemperature(moved, actuation)],
              LAMBDA after : Output(after, CellFraction(checked, cells))))

\* step: the reactor after the call, what it printed, and what came back
\* (reading self.gas_percentages or self.kla before any assignment to them
\* is an AttributeError)
step(self, agitator, actuation, heap, cells) ==
  Bind(check_and_update(self, agitator, actuation, heap),
       LAMBDA checked :
         IF checked.kla = Unset
         THEN [self |-> checked,
               printed |-> IF CellFraction(checked, cells) > 1000
                           THEN <<"Wayyyyy too many cells">> ELSE << >>,
               raised |-> "AttributeError", environment |-> Nothing]
         ELSE Balance(checked, actuation.val, cells))

\* ------------------------------------------------------- the simulation
\* A driver builds an agitator and, with it, the reactor, then calls step
\* again and again.  Each call is handed one of the driver's dicts: a new one
\* built for the call ("fresh"), or the one dict the driver keeps and
\* overwrites before each call ("shared").  In the twin simulation a second
\* reactor is built from the same parameters and stepped with the same
\* values, handed a copy made for the call.

MaxSteps == 2

StartTime == 0

SeedVolume == 4

InitialTemperature == 3000

InitialComponents == [Na |-> 40, lactate |-> 40]

Base ==
  [O2 |-> 0, CO2 |-> 0, air |-> 10, gas_volume |-> 10, liquid_volume |-> 0,
   RPS |-> 3, heat |-> 0, Na |-> 0, lactate |-> 0]

Other ==
  [O2 |-> 2, CO2 |-> 1, air |-> 0, gas_volume |-> 12, liquid_volume |-> 0 - 1,
   RPS |-> 2, heat |-> 50, Na |-> 5, lactate |-> 3]

\* Base, and Base with one field changed, each field in turn
Commands == {Base} \cup {[Base EXCEPT ![f] = Other[f]] : f \in DOMAIN Base}

NoTransfer == [component \in Range(liquid_components) |-> 0]

\* a resting culture, an overloaded one (more cell volume than liquid), and
\* one whose mass transfer of dCO2 outruns the gas exchange
CellStates ==
  {[total_cells |-> 10, volume |-> 2, mass_transfer |-> NoTransfer],
   [total_cells |-> 3000, volume |-> 2,
    mass_transfer |-> [dO2 |-> 34, dCO2 |-> 0 - 51, Na |-> 0 - 1, lactate |-> 4]],
   [total_cells |-> 20, volume |-> 2,
    mass_transfer |-> [dO2 |-> 0, dCO2 |-> 20000, Na |-> 0, lactate |-> 0]]}

VARIABLES agitator,     \* the agitator object (without power_number if its
                        \* construction raised)
          constructed,  \* "none", or the exception construction raised
          reactor,      \* run -> the bioreactor object; no run if none was built
          heap,         \* what the driver's own dict holds
          calls,        \* how many times the driver has called step
          actuation,    \* the first argument of the last call: ref and value
          earlier,      \* the first argument of the call before the last
          cells,        \* the second argument of the last call
          previous,     \* run -> the bioreactor object before the last call
          environment,  \* run -> the snapshot the last call returned
          raised,       \* run -> "none", or the exception the last call raised
          printed       \* run -> the lines the last call printed

vars == <<agitator, constructed, reactor, heap, calls, actuation, earlier, cells,
          previous, environment, raised, printed>>

\* agitator(impeller_type), then bioreactor(...) for each run if that did
\* not raise
Build(runs) ==
  \E impeller_type \in ImpellerTypes :
    \E built \in {agitator_init(impeller_type)} :
        /\ agitator = built.self
        /\ constructed = built.raised
        /\ reactor = [r \in IF built.raised = "none" THEN runs ELSE {} |->
                        bioreactor_init(StartTime, InitialComponents,
                                        SeedVolume, InitialTemperature)]
        /\ heap = Base
        /\ calls = 0
        /\ actuation = [ref |-> "none", val |-> Base]
        /\ earlier = [ref |-> "none", val |-> Base]
        /\ cells = [total_cells |-> 0, volume |-> 0, mass_transfer |-> NoTransfer]
        /\ previous = reactor
        /\ environment = [r \in DOMAIN reactor |-> Nothing]
        /\ raised = [r \in DOMAIN reactor |-> "none"]
        /\ printed = [r \in DOMAIN reactor |-> << >>]

Init == Build({1})

InitTwin == Build({1, 2})

\* The driver goes on while the run is not over, no call has raised and
\* there is liquid left.
CanStep ==
  /\ constructed = "none"
  /\ calls < MaxSteps
  /\ \A r \in DOMAIN reactor : raised[r] = "none"
  /\ \A r \in DOMAIN reactor : reactor[r].working_volume > 0

\* one call of step on each reactor, run 1 with the driver's dict `reference`
Call(reference, held, cell_state) ==
  \E result \in {[r \in DOMAIN reactor |->
                    step(reactor[r], agitator,
                         IF r = 1 THEN reference
                         ELSE [ref |-> "fresh", val |-> reference.val],
                         held, cell_state)]} :
      /\ heap' = held
      /\ calls' = calls + 1
      /\ actuation' = reference
      /\ earlier' = actuation
      /\ cells' = cell_state
      /\ previous' = reactor
      /\ reactor' = [r \in DOMAIN reactor |-> result[r].self]
      /\ environment' = [r \in DOMAIN reactor |-> result[r].environment]
      /\ raised' = [r \in DOMAIN reactor |-> result[r].raised]
      /\ printed' = [r \in DOMAIN reactor |-> result[r].printed]
      /\ UNCHANGED <<agitator, constructed>>

\* the driver builds a dict for this call
StepFresh(c, cell_state) ==
  /\ CanStep
  /\ Call([ref |-> "fresh", val |-> c], heap, cell_state)

\* the driver overwrites its own dict and passes it
StepShared(c, cell_state) ==
  /\ CanStep
  /\ Call([ref |-> "shared", val |-> c], c, cell_state)

Next ==
  \E c \in Commands, cell_state \in CellStates :
    \/ StepFresh(c, cell_state)
    \/ StepShared(c, cell_state)

Spec == Init /\ [][Next]_vars

SpecTwin == InitTwin /\ [][Next]_vars

\* ---------------------------------------------------------------- claims

\* step has been called: previous, actuation and cells describe the last call
Called == calls >= 1

\* the dict the last call handed to run r
Argument(r) == IF r = 1 THEN actuation ELSE [ref |-> "fresh", val |-> actuation.val]

\* what check_and_update caches
Cached(self) == <<self.kla, self.gas_percentages, self.mean_shear, self.max_shear>>

\* the cache computed from command c by a reactor in state self
Recomputed(self, c) ==
  <<kla_func(agitator, c["RPS"], c["gas_volume"], self.working_volume),
    calc_gas_percentages(c),
    (42 * c["RPS"] * shear_ratio * agitator.diameter) \div (agitator.width * 100),
    (((42 * c["RPS"] * shear_ratio * agitator.diameter) \div (agitator.width * 100))
       * 97) \div 42>>

\* C1 as stated: from the second call on, whenever the command equals the
\* previous call's command or the liquid feed rate is zero, the cached kLa,
\* gas-phase fractions and shears are the ones of before the call (they are
\* recomputed only if the command differs AND the liquid feed rate is not 0).
C1_ReuseUnlessBoth ==
  \A r \in DOMAIN reactor :
    (calls >= 2 /\ (actuation.val = earlier.val \/ actuation.val["liquid_volume"] = 0))
      => Cached(reactor[r]) = Cached(previous[r])

\* C1, amended: kLa, the gas-phase fractions and the shears are recomputed
\* from the command whenever it compares unequal to the dict the reactor
\* stored last (self.old, as that dict reads at the call) OR its liquid feed
\* rate is not 0; they are the ones of before the call only when the command
\* compares equal to it AND the liquid feed rate is 0.
C1_RecomputeIfEither ==
  \A r \in DOMAIN reactor :
    Called =>
      IF \/ Argument(r).val # Deref(previous[r].old, heap)
         \/ Argument(r).val["liquid_volume"] # 0
      THEN Cached(reactor[r]) = Recomputed(previous[r], Argument(r).val)
      ELSE Cached(reactor[r]) = Cached(previous[r])

\* a second call whose command differs from the first one's with no liquid
\* fed, and the kLa was recomputed to another value
C1_Witness ==
  /\ calls = 2
  /\ actuation.val # earlier.val
  /\ actuation.val["liquid_volume"] = 0
  /\ reactor[1].kla # previous[1].kla
  /\ reactor[1].kla = kla_func(agitator, actuation.val["RPS"],
                               actuation.val["gas_volume"], previous[1].working_volume)

\* C2: whenever any field of the command differs from the previous call's
\* command, that call recomputes kLa, gas-phase fractions and shears from
\* the new command, also when the driver passes the same dict again after
\* writing to it.
C2_RecomputeOnAnyChange ==
  \A r \in DOMAIN reactor :
    (calls >= 2 /\ actuation.val # earlier.val)
      => Cached(reactor[r]) = Recomputed(previous[r], actuation.val)

\* C3: one call changes the moles of every species that is not gas-exchanged
\* by exactly (its feed rate + its cell mass transfer) * q_res, whatever the
\* rest of the command and the other species do.
C3_ExplicitBalance ==
  \A r \in DOMAIN reactor :
    Called =>
      \A component \in Range(liquid_components) \ GasExchanged :
        reactor[r].mole[component] =
          previous[r].mole[component]
            + (actuation.val[component] + cells.mass_transfer[component]) * q_res

\* a call that fed one such species while the cells produced another and
\* took up the first: both moved, each by its own rates
C3_Witness ==
  /\ Called
  /\ actuation.val["Na"] = 5
  /\ cells.mass_transfer["Na"] = 0 - 1
  /\ cells.mass_transfer["lactate"] = 4
  /\ reactor[1].mole["Na"] = previous[1].mole["Na"] + 4 * q_res
  /\ reactor[1].mole["lactate"] = previous[1].mole["lactate"] + 4 * q_res

\* C4: the working volume is strictly positive after construction and after
\* any sequence of calls, whatever the net liquid feed rates.
C4_PositiveVolume == \A r \in DOMAIN reactor : reactor[r].working_volume > 0

\* C5: every call advances current_time by resolution, once, whether or not
\* the cache is recomputed: after N calls it is start_time + N * resolution,
\* and so is the 'time' of the snapshot the N-th call returns.
C5_ClockTicksEveryCall ==
  \A r \in DOMAIN reactor :
    /\ reactor[r].current_time = StartTime + calls * resolution
    /\ Called => reactor[r].current_time = previous[r].current_time + resolution
    /\ (Called /\ raised[r] = "none")
         => environment[r]["time"] = StartTime + calls * resolution

\* a second call that repeated the first one's command with no liquid fed,
\* left the cache alone and returned the time of two steps
C5_Witness ==
  /\ calls = 2
  /\ actuation.val = earlier.val
  /\ actuation.val["liquid_volume"] = 0
  /\ reactor[1].old = previous[1].old
  /\ raised[1] = "none"
  /\ environment[1]["time"] = StartTime + 2 * resolution
  /\ environment[1]["time"] > previous[1].current_time

\* the state the claim lists: moles, working volume, temperature, time and
\* the cache
Internal(self) ==
  <<self.mole, self.working_volume, self.temperature, self.current_time,
    Cached(self)>>

\* C6: two reactors built from the same parameters and stepped with the same
\* sequence of commands and cell states return the same snapshot at every
\* call and hold the same internal state after it.
C6_TwinsAgree ==
  (DOMAIN reactor = {1, 2}) =>
    /\ Internal(reactor[1]) = Internal(reactor[2])
    /\ raised[1] = raised[2]
    /\ environment[1] = environment[2]

\* C7: an agitator built as 'rushton' has power_number 5.5, one built as
\* 'marine' 2.2; any other type raises at construction, and then no
\* agitator with a power_number and no reactor exists, and none is stepped.
C7_ImpellerLookup ==
  /\ agitator.type = "rushton"
       => constructed = "none" /\ agitator.power_number = 55
  /\ agitator.type = "marine"
       => constructed = "none" /\ agitator.power_number = 22
  /\ agitator.type \notin {"rushton", "marine"}
       => /\ constructed = "ValueError"
          /\ "power_number" \notin DOMAIN agitator
          /\ DOMAIN reactor = {}
          /\ calls = 0

\* the construction with an unrecognized impeller, failed
C7_Witness ==
  /\ agitator.type = "pitched"
  /\ constructed = "ValueError"
  /\ DOMAIN reactor = {}

\* C8: a call with a cell-volume fraction above 1 prints the anomaly and
\* goes on: it leaves the reactor, and returns or raises, exactly as the same
\* call with no cells at all would (fraction 0), the snapshot differing in
\* mOsm only; in particular time and volume are updated.
C8_OverloadGoesOn ==
  \A r \in DOMAIN reactor :
    (Called /\ CellFraction(previous[r], cells) > 1000) =>
      LET calm == step(previous[r], agitator, Argument(r), heap,
                       [cells EXCEPT !.total_cells = 0])
      IN  /\ printed[r] = <<"Wayyyyy too many cells">>
          /\ calm.printed = << >>
          /\ reactor[r] = calm.self
          /\ reactor[r].current_time = previous[r].current_time + resolution
          /\ reactor[r].working_volume =
               previous[r].working_volume + actuation.val["liquid_volume"] * q_res
          /\ raised[r] = calm.raised
          /\ DOMAIN environment[r] = DOMAIN calm.environment
          /\ \A k \in DOMAIN environment[r] \ {"mOsm"} :
               environment[r][k] = calm.environment[k]

\* an overloaded call that printed, fed the species, drew liquid and
\* returned a snapshot with every field
C8_Witness ==
  /\ Called
  /\ CellFraction(previous[1], cells) > 1000
  /\ printed[1] = <<"Wayyyyy too many cells">>
  /\ raised[1] = "none"
  /\ actuation.val["liquid_volume"] # 0
  /\ reactor[1].mole["lactate"] # previous[1].mole["lactate"]
  /\ reactor[1].temperature # previous[1].temperature
  /\ DOMAIN environment[1] =
       {"shear", "max_shear", "volume", "mOsm", "pH", "temperature", "time"}
         \cup Range(liquid_components)

\* C9: when the gas-component flows of the command sum to zero, the
\* gas-phase fractions computed and cached are all zero (no division error,
\* no undefined value).
C9_ZeroFlowZeroFractions ==
  \A r \in DOMAIN reactor :
    (Called /\ actuation.val["O2"] + actuation.val["CO2"] + actuation.val["air"] = 0)
      => \A k \in DOMAIN reactor[r].gas_percentages : reactor[r].gas_percentages[k] = 0

\* C10: whenever pH is evaluated, the argument of its square root is not
\* negative.  (A nan argument, which C9's division leaves, is let through
\* here: math.sqrt does not raise on it.)
C10_DiscriminantNotNegative ==
  \A r \in DOMAIN reactor :
    Called => (IsNaN(Discriminant(reactor[r])) \/ Discriminant(reactor[r]) >= 0)

\* the amount a gas-exchanged component relaxes to in the last call: C_star
\* from the fractions the call used and the temperature and working volume
\* it started with
Equilibrium(r, component) ==
  FMul(C_star([previous[r] EXCEPT !.gas_percentages = reactor[r].gas_percentages],
              component),
       previous[r].working_volume)

\* x lies in the closed interval between a and b
Between(x, a, b) == (a <= x /\ x <= b) \/ (b <= x /\ x <= a)

\* C11: in a call with zero cell mass transfer of a gas-exchanged component
\* and kLa > 0, the component's new moles are defined, lie between its old
\* moles and C_star * V (V the working volume at the start of the call), are
\* not the old moles unless those were at C_star * V (to within the unit of
\* the fixed point), and are not negative when neither the old moles nor
\* C_star * V are.
C11_TowardEquilibrium ==
  \A r \in DOMAIN reactor : \A component \in GasExchanged :
    (/\ Called
     /\ raised[r] # "AttributeError"
     /\ cells.mass_transfer[component] = 0
     /\ Finite(previous[r].mole[component])
     /\ kLa(reactor[r], component) > 0)
      => /\ Finite(Equilibrium(r, component))
         /\ Finite(reactor[r].mole[component])
         /\ Between(reactor[r].mole[component], previous[r].mole[component],
                    Equilibrium(r, component))
         /\ Abs(previous[r].mole[component] - Equilibrium(r, component)) >= 2
              => reactor[r].mole[component] # previous[r].mole[component]
         /\ (previous[r].mole[component] >= 0 /\ Equilibrium(r, component) >= 0)
              => reactor[r].mole[component] >= 0

\* C12: the mOsm of the snapshot a call returns is total moles / (V * (1 - f))
\* with V the working volume of that snapshot and f = total_cells * cell
\* volume / V for the same V, whatever the liquid feed rate.
C12_OsmolalityOneVolume ==
  \A r \in DOMAIN reactor :
    (Called /\ raised[r] = "none") =>
      /\ environment[r]["volume"] = reactor[r].working_volume
      /\ environment[r]["mOsm"] =
           FDiv(FMul(total_moles(reactor[r]), 1000),
                environment[r]["volume"] * (1000 - CellFraction(reactor[r], cells)))

\* C13: in every call, from the first one on, the kLa the gas exchange uses
\* is defined and is the correlation at that call's RPS, that call's gas flow
\* and the working volume the call started with (a kLa computed for another
\* working volume is never used).
C13_KlaOfThisCall ==
  \A r \in DOMAIN reactor :
    Called =>
      /\ reactor[r].kla # Unset
      /\ reactor[r].kla = kla_func(agitator, actuation.val["RPS"],
                                   actuation.val["gas_volume"],
                                   previous[r].working_volume)

====
